---- MODULE Spec2Model ----
(***************************************************************************)
(* Model of src/main.py: the batch conversion of a tree of YAML detection  *)
(* rules into one CSV table, with tag matching against the tactics and     *)
(* techniques reference tables and the tactic backfill.                    *)
(*                                                                         *)
(* A Python str is a sequence of one-character strings.  A parsed YAML     *)
(* value is a tagged record: [t |-> "str", v |-> chars], [t |-> "none"],   *)
(* [t |-> "int", v |-> n], [t |-> "list", v |-> <<values>>] and            *)
(* [t |-> "dict", v |-> << <<key, value>> >>] (insertion ordered).         *)
(* The model is of the POSIX build: "/" separates path parts and glob      *)
(* patterns compare names case-sensitively.                                *)
(***************************************************************************)
EXTENDS Integers, Sequences, FiniteSets, TLC

(***************************************************************************)
(* Bounds of the model.                                                    *)
(***************************************************************************)
MaxFiles == 2
MaxTags == 2
MaxRefRows == 2

(***************************************************************************)
(* Python str operations.                                                  *)
(***************************************************************************)
UPPER == <<"A","B","C","D","E","F","G","H","I","J","K","L","M",
           "N","O","P","Q","R","S","T","U","V","W","X","Y","Z">>
LOWER == <<"a","b","c","d","e","f","g","h","i","j","k","l","m",
           "n","o","p","q","r","s","t","u","v","w","x","y","z">>
DIGITS == <<"0","1","2","3","4","5","6","7","8","9">>

\* str.lower() on one character
LowerChar(c) ==
    IF \E i \in DOMAIN UPPER : UPPER[i] = c
    THEN LOWER[CHOOSE i \in DOMAIN UPPER : UPPER[i] = c]
    ELSE c

\* str.lower()
Lower(s) == [i \in 1..Len(s) |-> LowerChar(s[i])]

RECURSIVE LStrip(_)
LStrip(s) == IF s # <<>> /\ Head(s) = " " THEN LStrip(Tail(s)) ELSE s

RECURSIVE RStrip(_)
RStrip(s) ==
    IF s # <<>> /\ s[Len(s)] = " " THEN RStrip(SubSeq(s, 1, Len(s) - 1)) ELSE s

\* str.strip()
Strip(s) == RStrip(LStrip(s))

\* s.startswith(p)
StartsWith(s, p) == Len(s) >= Len(p) /\ SubSeq(s, 1, Len(p)) = p

\* s.endswith(p)
EndsWith(s, p) == Len(s) >= Len(p) /\ SubSeq(s, Len(s) - Len(p) + 1, Len(s)) = p

\* s.split(sep) for a one-character sep: always at least one piece
RECURSIVE SplitFrom(_, _, _)
SplitFrom(s, sep, cur) ==
    IF s = <<>> THEN <<cur>>
    ELSE IF Head(s) = sep THEN <<cur>> \o SplitFrom(Tail(s), sep, <<>>)
    ELSE SplitFrom(Tail(s), sep, Append(cur, Head(s)))

Split(s, sep) == SplitFrom(s, sep, <<>>)

\* sep.join(parts)
RECURSIVE Join(_, _)
Join(parts, sep) ==
    IF parts = <<>> THEN <<>>
    ELSE IF Len(parts) = 1 THEN parts[1]
    ELSE parts[1] \o sep \o Join(Tail(parts), sep)

\* s.replace(old, ""): leftmost, non-overlapping occurrences removed
RECURSIVE Remove(_, _)
Remove(s, old) ==
    IF s = <<>> THEN <<>>
    ELSE IF StartsWith(s, old) THEN Remove(SubSeq(s, Len(old) + 1, Len(s)), old)
    ELSE <<Head(s)>> \o Remove(Tail(s), old)

\* re.sub(r'[-_]', ' ', s)
SubDashUnderscore(s) ==
    [i \in 1..Len(s) |-> IF s[i] \in {"-", "_"} THEN " " ELSE s[i]]

\* str(n) for a natural number
RECURSIVE IntToStr(_)
IntToStr(n) ==
    IF n < 10 THEN <<DIGITS[n + 1]>>
    ELSE IntToStr(n \div 10) \o <<DIGITS[(n % 10) + 1]>>

COMMA_SPACE == <<",", " ">>
ATTACK_DOT == <<"a","t","t","a","c","k",".">>
NONE_REPR == <<"N","o","n","e">>

(***************************************************************************)
(* Parsed YAML values.                                                     *)
(***************************************************************************)
Str(s) == [t |-> "str", v |-> s]
None == [t |-> "none"]
Num(n) == [t |-> "int", v |-> n]
List(xs) == [t |-> "list", v |-> xs]
Dict(kvs) == [t |-> "dict", v |-> kvs]
EMPTY == Str(<<>>)

\* str(x) of a scalar value
PyStr(x) ==
    CASE x.t = "str" -> x.v
      [] x.t = "int" -> IntToStr(x.v)
      [] OTHER -> NONE_REPR

\* content.get(key, "")
Get(content, key) ==
    IF \E i \in DOMAIN content : content[i][1] = key
    THEN content[CHOOSE i \in DOMAIN content : content[i][1] = key][2]
    ELSE EMPTY

clean_tags(tags) ==
    IF tags.t = "list"
    THEN Join([i \in 1..Len(tags.v) |->
                 Remove(SubDashUnderscore(PyStr(tags.v[i])), ATTACK_DOT)],
              COMMA_SPACE)
    ELSE IF tags.t = "str"
    THEN Remove(SubDashUnderscore(tags.v), ATTACK_DOT)
    ELSE <<>>

format_tags(tags) ==
    IF tags.t = "list"
    THEN Join([i \in 1..Len(tags.v) |-> PyStr(tags.v[i])], COMMA_SPACE)
    ELSE IF tags.t = "dict"
    THEN Join([i \in 1..Len(tags.v) |->
                 tags.v[i][1] \o <<":">> \o PyStr(tags.v[i][2])],
              COMMA_SPACE)
    ELSE IF tags.t = "none" THEN <<>>
    ELSE PyStr(tags)

(***************************************************************************)
(* Reference tables.  A reference file is [exists, cols, rows]: cols is    *)
(* the set of its column names and rows the sequence of its rows, each a   *)
(* function from the column names to the cell text.  pandas reads every    *)
(* cell as a str and fillna('') turns a missing cell into "".              *)
(***************************************************************************)
\* dict(m) after m[k] = v
DictPut(m, k, v) == [x \in (DOMAIN m) \cup {k} |-> IF x = k THEN v ELSE m[x]]

EmptyDict == [x \in {} |-> <<>>]

\* the dict built by one column's assignments of build_lookup's loop
RECURSIVE ColumnLookup(_, _, _)
ColumnLookup(rows, col, n) ==
    IF n = 0 THEN EmptyDict
    ELSE DictPut(ColumnLookup(rows, col, n - 1),
                 Lower(Strip(rows[n][col])), rows[n][col])

\* build_lookup raises KeyError at row['ID'] or row['name'] on the first row
build_lookup_raises(df) ==
    df.rows # <<>> /\ ~({"ID", "name"} \subseteq df.cols)

build_lookup(reference_df) ==
    [id   |-> ColumnLookup(reference_df.rows, "ID", Len(reference_df.rows)),
     name |-> ColumnLookup(reference_df.rows, "name", Len(reference_df.rows))]

\* the elements of a sequence, each once, in order of first occurrence
RECURSIVE Dedup(_)
Dedup(xs) ==
    IF xs = <<>> THEN <<>>
    ELSE LET init == Dedup(SubSeq(xs, 1, Len(xs) - 1))
             last == xs[Len(xs)]
         IN IF \E i \in DOMAIN init : init[i] = last THEN init
            ELSE Append(init, last)

Reverse(xs) == [i \in 1..Len(xs) |-> xs[Len(xs) + 1 - i]]

SelectSeqIn(xs, S) == SelectSeq(xs, LAMBDA x : x \in S)

\* The iteration order of set(tokens).  It is fixed by the interpreter's
\* string hashing for the run (seed): the same tokens iterate in the same
\* order every time within one run, and differently under another seed.
SetIter(tokens, seed) ==
    IF seed = 0 THEN Dedup(tokens) ELSE Reverse(Dedup(tokens))

\* tags_set of match_tags, in iteration order
TagsSet(tags, seed) ==
    LET kept == SelectSeq(Split(tags, ","), LAMBDA tag : Strip(tag) # <<>>)
    IN SetIter([i \in 1..Len(kept) |-> Lower(Strip(kept[i]))], seed)

\* match_tags with the tokens compared as written, not lowercased
match_tags_cased(tags, lookup, seed) ==
    LET kept == SelectSeq(Split(tags, ","), LAMBDA tag : Strip(tag) # <<>>)
        tags_set == SetIter([i \in 1..Len(kept) |-> Strip(kept[i])], seed)
        in_id == SelectSeqIn(tags_set, DOMAIN lookup.id)
        in_name == SelectSeqIn(tags_set, DOMAIN lookup.name)
        matched_ids == [i \in 1..Len(in_id) |-> lookup.id[in_id[i]]]
        matched_names == [i \in 1..Len(in_name) |-> lookup.name[in_name[i]]]
    IN <<Join(matched_ids, COMMA_SPACE), Join(matched_names, COMMA_SPACE)>>

match_tags(tags, lookup, seed) ==
    LET tags_set == TagsSet(tags, seed)
        in_id == SelectSeqIn(tags_set, DOMAIN lookup.id)
        in_name == SelectSeqIn(tags_set, DOMAIN lookup.name)
        matched_ids == [i \in 1..Len(in_id) |-> lookup.id[in_id[i]]]
        matched_names == [i \in 1..Len(in_name) |-> lookup.name[in_name[i]]]
    IN <<Join(matched_ids, COMMA_SPACE), Join(matched_names, COMMA_SPACE)>>

\* The tactic names the loop of fill_tactics_from_techniques accumulates
\* from the first n pieces of techniques_id; "raised" when
\* techniques_df.at[idx[0], 'tactics'] has no such column (KeyError).
RECURSIVE TacticsNames(_, _, _, _)
TacticsNames(pieces, n, techniques_lookup, techniques_df) ==
    IF n = 0 THEN [raised |-> FALSE, names |-> <<>>]
    ELSE LET sofar == TacticsNames(pieces, n - 1, techniques_lookup, techniques_df)
             tech_id == Strip(pieces[n])
             idx == SelectSeq([i \in 1..Len(techniques_df.rows) |-> i],
                      LAMBDA i : Lower(techniques_df.rows[i]["ID"]) = Lower(tech_id))
         IN IF sofar.raised THEN sofar
            ELSE IF tech_id # <<>> /\ Lower(tech_id) \in DOMAIN techniques_lookup.id
                    /\ idx # <<>>
            THEN IF "tactics" \notin techniques_df.cols
                 THEN [raised |-> TRUE, names |-> sofar.names]
                 ELSE LET ts == Split(techniques_df.rows[idx[1]]["tactics"], ",")
                      IN [raised |-> FALSE,
                          names |-> sofar.names \o
                                    [i \in 1..Len(ts) |-> Strip(ts[i])]]
            ELSE sofar

\* fill_tactics_from_techniques without the test of tactics_id
fill_tactics_unguarded(row, techniques_lookup, tactics_lookup, techniques_df, seed) ==
    IF row["techniques_id"].v # <<>>
    THEN LET pieces == Split(row["techniques_id"].v, ",")
             acc == TacticsNames(pieces, Len(pieces), techniques_lookup, techniques_df)
             m == match_tags(Join(acc.names, COMMA_SPACE), tactics_lookup, seed)
         IN IF acc.raised THEN [raised |-> TRUE, row |-> row]
            ELSE [raised |-> FALSE,
                  row |-> [row EXCEPT !["tactics_id"] = Str(m[1]),
                                      !["tactics_name"] = Str(m[2])]]
    ELSE [raised |-> FALSE, row |-> row]

\* Result [raised, row]: row is the row as the call leaves it.
fill_tactics_from_techniques(row, techniques_lookup, tactics_lookup, techniques_df, seed) ==
    IF row["tactics_id"].v = <<>> /\ row["techniques_id"].v # <<>>
    THEN LET pieces == Split(row["techniques_id"].v, ",")
             acc == TacticsNames(pieces, Len(pieces), techniques_lookup, techniques_df)
             m == match_tags(Join(acc.names, COMMA_SPACE), tactics_lookup, seed)
         IN IF acc.raised THEN [raised |-> TRUE, row |-> row]
            ELSE [raised |-> FALSE,
                  row |-> [row EXCEPT !["tactics_id"] = Str(m[1]),
                                      !["tactics_name"] = Str(m[2])]]
    ELSE [raised |-> FALSE, row |-> row]

(***************************************************************************)
(* Text used by the inputs below.                                          *)
(***************************************************************************)
S_T1055 == <<"T","1","0","5","5">>
S_t1055_lc == <<"t","1","0","5","5">>
S_TA0005 == <<"T","A","0","0","0","5">>
S_TA0004 == <<"T","A","0","0","0","4">>
S_DefenseEvasion == <<"D","e","f","e","n","s","e"," ","E","v","a","s","i","o","n">>
S_PrivilegeEscalation == <<"P","r","i","v","i","l","e","g","e"," ","E","s","c","a","l","a","t","i","o","n">>
S_ProcessInjection == <<"P","r","o","c","e","s","s"," ","I","n","j","e","c","t","i","o","n">>
S_attack_t1055 == <<"a","t","t","a","c","k",".","t","1","0","5","5">>
S_Defense_Evasion == <<"D","e","f","e","n","s","e","-","E","v","a","s","i","o","n">>
S_attack_privilege_escalation == <<"a","t","t","a","c","k",".","p","r","i","v","i","l","e","g","e","_","e","s","c","a","l","a","t","i","o","n">>
S_category == <<"c","a","t","e","g","o","r","y">>
S_process_creation == <<"p","r","o","c","e","s","s","_","c","r","e","a","t","i","o","n">>
S_product == <<"p","r","o","d","u","c","t">>
S_windows == <<"w","i","n","d","o","w","s">>
S_linux == <<"l","i","n","u","x">>
S_process == <<"p","r","o","c","e","s","s">>
S_Rule == <<"R","u","l","e">>
S_high == <<"h","i","g","h">>
S_a_yaml == <<"a",".","y","a","m","l">>
S_b_yml == <<"b",".","y","m","l">>
S_C_YML == <<"C",".","Y","M","L">>
S_d_yml == <<"d",".","y","m","l">>
S_n_txt == <<"n",".","t","x","t">>
S_e_yaml == <<"e",".","y","a","m","l">>
S_f_yml == <<"f",".","y","m","l">>
S_m_yml == <<"m",".","y","m","l">>
S_g_yml == <<"g",".","y","m","l">>
S_k_yml == <<"k",".","y","m","l">>
S_p_yml == <<"p",".","y","m","l">>
S_q_yml == <<"q",".","y","m","l">>
S_Image == <<"I","m","a","g","e">>
S_User == <<"U","s","e","r">>
S_url == <<"u","r","l">>
S_attack_ta0005 == <<"a","t","t","a","c","k",".","t","a","0","0","0","5">>
S_sp_T1055 == <<" ","T","1","0","5","5">>
S_Impact == <<"I","m","p","a","c","t">>
S_T1485 == <<"T","1","4","8","5">>
DOT_YML == <<".","y","m","l">>
DOT_YAML == <<".","y","a","m","l">>
S_date == <<"d","a","t","e">>
S_modified == <<"m","o","d","i","f","i","e","d">>
S_tags == <<"t","a","g","s">>
S_logsource == <<"l","o","g","s","o","u","r","c","e">>
S_title == <<"t","i","t","l","e">>
S_description == <<"d","e","s","c","r","i","p","t","i","o","n">>
S_detection == <<"d","e","t","e","c","t","i","o","n">>
S_falsepositives == <<"f","a","l","s","e","p","o","s","i","t","i","v","e","s">>
S_fields == <<"f","i","e","l","d","s">>
S_level == <<"l","e","v","e","l">>
S_references == <<"r","e","f","e","r","e","n","c","e","s">>

(***************************************************************************)
(* One rule file: the body of main's loop.                                 *)
(* A file-system entry is [dir, name, isdir, doc]: dir is the sequence of  *)
(* directory names from the root to the entry's parent, and doc is what    *)
(* yaml.safe_load makes of the entry's text: [parse |-> "error"] or        *)
(* [parse |-> "ok", content |-> value].                                    *)
(***************************************************************************)
columns == <<"date", "modified", "Type", "Datasource", "tags", "original_tags",
             "tactics_id", "tactics_name", "techniques_id", "techniques_name",
             "logsource", "title", "description", "detection", "falsepositives",
             "fields", "level", "references", "File path", "file name">>

Columns == {columns[i] : i \in DOMAIN columns}

PathColumns == {"File path", "file name", "Type", "Datasource"}

\* str(Path(*parts)): "." for no parts
PathStr(parts) == IF parts = <<>> THEN <<".">> ELSE Join(parts, <<"/">>)

split_file_path(parts) ==
    [type_folder |-> IF parts # <<>> THEN parts[1] ELSE <<>>,
     datasource  |-> IF Len(parts) > 1 THEN PathStr(Tail(parts)) ELSE <<>>]

\* the row as line 94-97 makes it, before the try block
NewRow(f) ==
    [c \in Columns |->
        CASE c = "File path"  -> Str(PathStr(f.dir))
          [] c = "file name"  -> Str(f.name)
          [] c = "Type"       -> Str(split_file_path(f.dir).type_folder)
          [] c = "Datasource" -> Str(split_file_path(f.dir).datasource)
          [] OTHER -> EMPTY]

\* bool(x) is False
Falsy(x) ==
    \/ x.t = "none"
    \/ x.t = "int" /\ x.v = 0
    \/ x.t \in {"str", "list", "dict"} /\ x.v = <<>>

\* yaml.safe_load(yaml_file) or {}
LoadedContent(doc) == IF Falsy(doc.content) THEN Dict(<<>>) ELSE doc.content

\* ', '.join(xs) raises TypeError unless every element is a str
JoinRaises(xs) == \E i \in DOMAIN xs.v : xs.v[i].t # "str"

\* lines 111-117 and 119-125: the value stored for fields and for references
ListOrFormat(x) ==
    IF x.t = "list"
    THEN Join([i \in 1..Len(x.v) |-> x.v[i].v], COMMA_SPACE)
    ELSE format_tags(x)

\* Lines 101-110 of the try block
RowToFalsepositives(row, content) ==
    [row EXCEPT !["date"] = Get(content.v, S_date),
                !["modified"] = Get(content.v, S_modified),
                !["original_tags"] = Str(format_tags(Get(content.v, S_tags))),
                !["tags"] = Str(clean_tags(Get(content.v, S_tags))),
                !["logsource"] = Str(format_tags(Get(content.v, S_logsource))),
                !["title"] = Get(content.v, S_title),
                !["description"] = Get(content.v, S_description),
                !["detection"] = Str(format_tags(Get(content.v, S_detection))),
                !["falsepositives"] = Str(format_tags(Get(content.v, S_falsepositives)))]

\* Lines 126-128 of the try block
RowMatched(row, tactics_lookup, techniques_lookup, seed) ==
    IF row["tags"].v # <<>>
    THEN LET tac == match_tags(row["tags"].v, tactics_lookup, seed)
             tec == match_tags(row["tags"].v, techniques_lookup, seed)
         IN [row EXCEPT !["tactics_id"] = Str(tac[1]),
                        !["tactics_name"] = Str(tac[2]),
                        !["techniques_id"] = Str(tec[1]),
                        !["techniques_name"] = Str(tec[2])]
    ELSE row

\* The loop body for entry f (lines 93-134): [raised, row], row being what
\* is appended to data_rows and raised whether the except branch ran.
ProcessedRow(f, tactics_lookup, techniques_lookup, techniques_df, seed) ==
    LET row0 == NewRow(f)
    IN IF f.isdir \/ f.doc.parse = "error"
       THEN [raised |-> TRUE, row |-> row0]
       ELSE LET content == LoadedContent(f.doc)
            IN IF content.t # "dict"
               THEN [raised |-> TRUE, row |-> row0]
               ELSE
    LET row1 == RowToFalsepositives(row0, content)
        fields == Get(content.v, S_fields)
        refs == Get(content.v, S_references)
    IN IF fields.t = "list" /\ JoinRaises(fields)
       THEN [raised |-> TRUE, row |-> row1]
       ELSE
    LET row2 == [row1 EXCEPT !["fields"] = Str(ListOrFormat(fields)),
                             !["level"] = Get(content.v, S_level)]
    IN IF refs.t = "list" /\ JoinRaises(refs)
       THEN [raised |-> TRUE, row |-> row2]
       ELSE
    LET row3 == [row2 EXCEPT !["references"] = Str(ListOrFormat(refs))]
        row4 == RowMatched(row3, tactics_lookup, techniques_lookup, seed)
    IN fill_tactics_from_techniques(row4, techniques_lookup, tactics_lookup,
                                    techniques_df, seed)

\* csv.DictWriter writes None as the empty field and any other value as str
CsvCell(x) == IF x.t = "none" THEN <<>> ELSE PyStr(x)

\* pd.read_csv raises when the file is missing or unreadable
load_csv_raises(file) == ~file.exists

load_csv(file) == [cols |-> file.cols, rows |-> file.rows]

\* Path.rglob(pattern) for the pattern "*" \o ext, in the order the
\* directory walk meets the entries
RGlob(walk, ext) == SelectSeq(walk, LAMBDA e : EndsWith(e.name, ext))

(***************************************************************************)
(* Inputs: the rule documents, the tree under --root and the two reference *)
(* files a run may be given.                                               *)
(***************************************************************************)
Parsed(kvs) == [parse |-> "ok", content |-> Dict(kvs)]

D_error == [parse |-> "error"]
D_empty == [parse |-> "ok", content |-> None]
D_sequence == [parse |-> "ok", content |-> List(<<Str(S_Rule)>>)]
D_notags == Parsed(<< <<S_title, Str(S_Rule)>>, <<S_level, Str(S_high)>> >>)
D_t1055 == Parsed(<< <<S_title, Str(S_Rule)>>,
                     <<S_tags, List(<<Str(S_attack_t1055)>>)>> >>)
D_both == Parsed(<< <<S_tags, List(<<Str(S_attack_t1055), Str(S_Defense_Evasion)>>)>>,
                    <<S_logsource, Dict(<< <<S_category, Str(S_process_creation)>>,
                                           <<S_product, Str(S_windows)>> >>)>> >>)
D_other_tactic == Parsed(<< <<S_tags, List(<<Str(S_attack_privilege_escalation),
                                             Str(S_attack_t1055)>>)>> >>)
D_tactic_id == Parsed(<< <<S_tags, List(<<Str(S_attack_ta0005), Str(S_attack_t1055)>>)>> >>)
D_nulls == Parsed(<< <<S_title, None>>, <<S_date, None>>, <<S_level, Num(3)>> >>)
D_fields_int == Parsed(<< <<S_title, Str(S_Rule)>>,
                          <<S_fields, List(<<Num(1), Str(S_Image)>>)>> >>)
D_refs_none == Parsed(<< <<S_fields, List(<<Str(S_Image)>>)>>,
                         <<S_level, Str(S_high)>>,
                         <<S_references, List(<<None>>)>> >>)
D_lists == Parsed(<< <<S_fields, List(<<Str(S_Image), Str(S_User)>>)>>,
                     <<S_references, List(<<Str(S_url)>>)>>,
                     <<S_falsepositives, List(<<Str(S_User), Num(12)>>)>> >>)

File(dir, name, doc) == [dir |-> dir, name |-> name, isdir |-> FALSE, doc |-> doc]
Directory(dir, name) == [dir |-> dir, name |-> name, isdir |-> TRUE, doc |-> D_error]

EntryPool ==
    { File(<<>>, S_a_yaml, D_t1055),
      File(<<>>, S_b_yml, D_both),
      File(<<>>, S_C_YML, D_t1055),
      File(<<>>, S_n_txt, D_t1055),
      File(<<>>, S_m_yml, D_sequence),
      File(<<>>, S_k_yml, D_other_tactic),
      Directory(<<>>, S_d_yml),
      File(<<S_linux>>, S_e_yaml, D_error),
      File(<<S_linux>>, S_f_yml, D_empty),
      File(<<S_linux>>, S_k_yml, D_tactic_id),
      File(<<S_windows>>, S_p_yml, D_fields_int),
      File(<<S_windows>>, S_g_yml, D_lists),
      File(<<S_windows>>, S_a_yaml, D_refs_none),
      File(<<S_windows, S_process>>, S_q_yml, D_nulls),
      File(<<S_windows, S_process>>, S_b_yml, D_notags) }

RefRow(id, name, tactics) ==
    [c \in {"ID", "name", "tactics"} |->
        CASE c = "ID" -> id [] c = "name" -> name [] OTHER -> tactics]

RefFile(cols, rows) ==
    [exists |-> TRUE, cols |-> cols,
     rows |-> [i \in 1..Len(rows) |-> [c \in cols |-> rows[i][c]]]]

MissingFile == [exists |-> FALSE, cols |-> {}, rows |-> <<>>]

TacticRows == <<RefRow(S_TA0005, S_DefenseEvasion, <<>>),
                RefRow(S_TA0004, S_PrivilegeEscalation, <<>>)>>

TacticsFiles ==
    { RefFile({"ID", "name"}, TacticRows),
      RefFile({"ID"}, TacticRows),
      MissingFile }

TechniquesFiles ==
    { RefFile({"ID", "name", "tactics"},
              <<RefRow(S_T1055, S_ProcessInjection, S_DefenseEvasion)>>),
      RefFile({"ID", "name", "tactics"},
              <<RefRow(S_T1055, S_ProcessInjection, <<>>)>>),
      RefFile({"ID", "name", "tactics"},
              <<RefRow(S_T1055, S_ProcessInjection,
                       S_PrivilegeEscalation \o COMMA_SPACE \o S_DefenseEvasion)>>),
      RefFile({"ID", "name"},
              <<RefRow(S_T1055, S_ProcessInjection, <<>>)>>),
      RefFile({"ID", "name"}, <<>>),
      MissingFile }

HashSeeds == {0, 1}

IsPrefix(p, d) == Len(p) <= Len(d) /\ SubSeq(d, 1, Len(p)) = p

\* The orders in which a recursive walk can meet the entries: a directory's
\* own entries before those of its subdirectories, each subtree in one run,
\* and the order within a directory left to the file system.
IsWalk(w) ==
    /\ \A i, j \in DOMAIN w : i < j => ~(w[j].dir # w[i].dir /\ IsPrefix(w[j].dir, w[i].dir))
    /\ \A i, j, k \in DOMAIN w :
         i < j /\ j < k =>
           \A n \in 0..Len(w[i].dir) :
              LET d == SubSeq(w[i].dir, 1, n)
              IN IsPrefix(d, w[k].dir) => IsPrefix(d, w[j].dir)

Walks(entries) ==
    { w \in [1..Cardinality(entries) -> entries] :
        /\ \A i, j \in DOMAIN w : i # j => w[i] # w[j]
        /\ IsWalk(w) }

\* the trees: at most MaxFiles entries, no two with the same path
Trees ==
    { t \in SUBSET EntryPool :
        /\ Cardinality(t) <= MaxFiles
        /\ \A e1, e2 \in t : e1.dir = e2.dir /\ e1.name = e2.name => e1 = e2 }

(***************************************************************************)
(* State of a run of main, and of a single call of match_tags or of        *)
(* fill_tactics_from_techniques (the call variables).                      *)
(***************************************************************************)
VARIABLES
    pc,                 \* where main is: start, walk, loop, done, aborted
    tactics_file,       \* the file at --tactics
    techniques_file,    \* the file at --techniques
    tree,               \* the entries under --root
    walk,               \* the order in which the file system lists them
    hash_seed,          \* the interpreter's string-hash seed of this run
    tactics_df, techniques_df, tactics_lookup, techniques_lookup,
    yaml_files, data_rows, error_files, processed_files,
    output,             \* the file at --output: [written, rows]
    call_pc, call_args, call_ret

vars == <<pc, tactics_file, techniques_file, tree, walk, hash_seed,
          tactics_df, techniques_df, tactics_lookup, techniques_lookup,
          yaml_files, data_rows, error_files, processed_files, output,
          call_pc, call_args, call_ret>>

env == <<tactics_file, techniques_file, tree, walk, hash_seed>>
call == <<call_pc, call_args, call_ret>>

NoTable == [cols |-> {}, rows |-> <<>>]
NoLookup == [id |-> EmptyDict, name |-> EmptyDict]

MainIdle ==
    /\ tactics_df = NoTable /\ techniques_df = NoTable
    /\ tactics_lookup = NoLookup /\ techniques_lookup = NoLookup
    /\ yaml_files = <<>> /\ data_rows = <<>>
    /\ error_files = 0 /\ processed_files = 0
    /\ output = [written |-> FALSE, rows |-> <<>>]

Init ==
    /\ pc = "start"
    /\ tactics_file \in TacticsFiles
    /\ techniques_file \in TechniquesFiles
    /\ tree \in Trees
    /\ walk \in Walks(tree)
    /\ hash_seed \in HashSeeds
    /\ MainIdle
    /\ call_pc = "off" /\ call_args = <<>> /\ call_ret = <<>>

\* lines 76-79 when one of them raises: the exception leaves main
ReferencesRaise ==
    \/ load_csv_raises(tactics_file)
    \/ load_csv_raises(techniques_file)
    \/ build_lookup_raises(load_csv(tactics_file))
    \/ build_lookup_raises(load_csv(techniques_file))

AbortOnReferences ==
    /\ pc = "start"
    /\ ReferencesRaise
    /\ pc' = "aborted"
    /\ UNCHANGED <<env, tactics_df, techniques_df, tactics_lookup, techniques_lookup,
                   yaml_files, data_rows, error_files, processed_files, output, call>>

\* lines 76-79
LoadReferences ==
    /\ pc = "start"
    /\ ~ReferencesRaise
    /\ tactics_df' = load_csv(tactics_file)
    /\ techniques_df' = load_csv(techniques_file)
    /\ tactics_lookup' = build_lookup(load_csv(tactics_file))
    /\ techniques_lookup' = build_lookup(load_csv(techniques_file))
    /\ pc' = "walk"
    /\ UNCHANGED <<env, yaml_files, data_rows, error_files, processed_files, output, call>>

\* line 91
DiscoverFiles ==
    /\ pc = "walk"
    /\ yaml_files' = RGlob(walk, DOT_YML) \o RGlob(walk, DOT_YAML)
    /\ pc' = "loop"
    /\ UNCHANGED <<env, tactics_df, techniques_df, tactics_lookup, techniques_lookup,
                   data_rows, error_files, processed_files, output, call>>

\* lines 92-134, one iteration
ProcessFile ==
    /\ pc = "loop"
    /\ Len(data_rows) < Len(yaml_files)
    /\ LET r == ProcessedRow(yaml_files[Len(data_rows) + 1], tactics_lookup,
                             techniques_lookup, techniques_df, hash_seed)
       IN /\ data_rows' = Append(data_rows, r.row)
          /\ error_files' = IF r.raised THEN error_files + 1 ELSE error_files
          /\ processed_files' = IF r.raised THEN processed_files ELSE processed_files + 1
    /\ UNCHANGED <<pc, env, tactics_df, techniques_df, tactics_lookup, techniques_lookup,
                   yaml_files, output, call>>

\* lines 135-139
WriteOutput ==
    /\ pc = "loop"
    /\ Len(data_rows) = Len(yaml_files)
    /\ output' = [written |-> TRUE,
                  rows |-> [i \in 1..Len(data_rows) |->
                              [c \in Columns |-> CsvCell(data_rows[i][c])]]]
    /\ pc' = "done"
    /\ UNCHANGED <<env, tactics_df, techniques_df, tactics_lookup, techniques_lookup,
                   yaml_files, data_rows, error_files, processed_files, call>>

Next ==
    \/ AbortOnReferences
    \/ LoadReferences
    \/ DiscoverFiles
    \/ ProcessFile
    \/ WriteOutput

Spec == Init /\ [][Next]_vars

(***************************************************************************)
(* A single call of match_tags, on any tags text and reference table.      *)
(***************************************************************************)
SeqsUpTo(S, n) == UNION {[1..k -> S] : k \in 0..n}

TagTokenPool == {S_t1055_lc, S_T1055, S_sp_T1055, S_DefenseEvasion, <<>>}

MatchRowPool ==
    { RefRow(S_T1055, S_ProcessInjection, <<>>),
      RefRow(S_t1055_lc, S_DefenseEvasion, <<>>),
      RefRow(S_TA0005, S_DefenseEvasion, <<>>),
      RefRow(S_sp_T1055, S_T1055, <<>>) }

InitMatch ==
    /\ pc = "off"
    /\ tactics_file = MissingFile /\ techniques_file = MissingFile
    /\ tree = {} /\ walk = <<>>
    /\ hash_seed \in HashSeeds
    /\ MainIdle
    /\ call_pc = "call"
    /\ \E toks \in SeqsUpTo(TagTokenPool, MaxTags), rows \in SeqsUpTo(MatchRowPool, MaxRefRows) :
         call_args = [tags |-> Join(toks, <<",">>),
                      df |-> load_csv(RefFile({"ID", "name"}, rows))]
    /\ call_ret = <<>>

\* lines 37-41, on the lookup lines 29-35 build
CallMatchTags ==
    /\ call_pc = "call"
    /\ call_ret' = match_tags(call_args.tags, build_lookup(call_args.df), hash_seed)
    /\ call_pc' = "return"
    /\ UNCHANGED <<pc, env, tactics_df, techniques_df, tactics_lookup, techniques_lookup,
                   yaml_files, data_rows, error_files, processed_files, output, call_args>>

NextMatch == CallMatchTags

SpecMatch == InitMatch /\ [][NextMatch]_vars

(***************************************************************************)
(* fill_tactics_from_techniques applied once and then again to its result. *)
(***************************************************************************)
TechIdPool == {S_T1055, S_t1055_lc, S_T1485}

FillTechRowPool ==
    { RefRow(S_T1055, S_ProcessInjection, S_DefenseEvasion),
      RefRow(S_T1055, S_ProcessInjection, S_PrivilegeEscalation \o <<",">> \o S_DefenseEvasion),
      RefRow(S_T1485, S_Impact, S_Impact) }

FillTacticsFiles ==
    { RefFile({"ID", "name"}, TacticRows),
      RefFile({"ID", "name"}, TacticRows \o <<RefRow(S_Impact, S_Impact, <<>>)>>) }

FillRows ==
    { [NewRow(File(<<>>, S_b_yml, D_t1055)) EXCEPT
          !["tactics_id"] = Str(tid), !["tactics_name"] = Str(tname),
          !["techniques_id"] = Str(Join(techs, COMMA_SPACE))] :
        tid \in {<<>>, S_TA0005}, tname \in {<<>>, S_PrivilegeEscalation},
        techs \in SeqsUpTo(TechIdPool, MaxTags) }

InitFill ==
    /\ pc = "off"
    /\ tactics_file = MissingFile /\ techniques_file = MissingFile
    /\ tree = {} /\ walk = <<>>
    /\ hash_seed \in HashSeeds
    /\ MainIdle
    /\ call_pc = "call"
    /\ \E row \in FillRows, tac \in FillTacticsFiles,
          cols \in {{"ID", "name", "tactics"}, {"ID", "name"}},
          rows \in SeqsUpTo(FillTechRowPool, MaxRefRows) :
         call_args = [row |-> row, tactics_df |-> load_csv(tac),
                      techniques_df |-> load_csv(RefFile(cols, rows))]
    /\ call_ret = <<>>

\* lines 43-57, called on a row and then on the row it returned
CallFillTwice ==
    /\ call_pc = "call"
    /\ LET tec == build_lookup(call_args.techniques_df)
           tac == build_lookup(call_args.tactics_df)
           once == fill_tactics_from_techniques(call_args.row, tec, tac,
                                                call_args.techniques_df, hash_seed)
           twice == IF once.raised THEN once
                    ELSE fill_tactics_from_techniques(once.row, tec, tac,
                                                      call_args.techniques_df, hash_seed)
       IN call_ret' = [once |-> once, twice |-> twice]
    /\ call_pc' = "return"
    /\ UNCHANGED <<pc, env, tactics_df, techniques_df, tactics_lookup, techniques_lookup,
                   yaml_files, data_rows, error_files, processed_files, output, call_args>>

NextFill == CallFillTwice

SpecFill == InitFill /\ [][NextFill]_vars

(***************************************************************************)
(* Vocabulary of the properties.                                           *)
(***************************************************************************)
Range(xs) == {xs[i] : i \in DOMAIN xs}

\* the trimmed, lowercased, non-empty comma-separated tokens of a text
TokenSet(text) == {Lower(Strip(t)) : t \in Range(Split(text, ","))} \ {<<>>}

\* the trimmed, non-empty comma-separated values of a cell
ValueSet(text) == {Strip(t) : t \in Range(Split(text, ","))} \ {<<>>}

Key(text) == Lower(Strip(text))

\* the stored values of column col a table returns for the tokens: for
\* each key among the tokens, the value of the last row with that key
Canonical(df, col, tokens) ==
    { df.rows[i][col] : i \in { i \in DOMAIN df.rows :
          /\ Key(df.rows[i][col]) \in tokens
          /\ \A j \in DOMAIN df.rows : j > i => Key(df.rows[j][col]) # Key(df.rows[i][col]) } }

Orderings(S) ==
    { p \in [1..Cardinality(S) -> S] : \A i, j \in DOMAIN p : i # j => p[i] # p[j] }

\* text lists exactly the values of S, each once, separated by ", "
ListsExactly(text, S) == \E p \in Orderings(S) : text = Join(p, COMMA_SPACE)

\* what the loop body does with the i-th discovered file
Outcome(i) ==
    ProcessedRow(yaml_files[i], tactics_lookup, techniques_lookup, techniques_df, hash_seed)

\* the i-th discovered file parses to a mapping
IsMapping(f) ==
    ~f.isdir /\ f.doc.parse = "ok" /\ LoadedContent(f.doc).t = "dict"

ContentOf(f) == LoadedContent(f.doc).v

\* characters in code-point order
CHARS == <<" ", "-", ".", "/">> \o DIGITS \o <<":">> \o UPPER \o <<"_">> \o LOWER

CharRank(c) == CHOOSE i \in DOMAIN CHARS : CHARS[i] = c

RECURSIVE TextLeq(_, _)
TextLeq(a, b) ==
    IF a = <<>> THEN TRUE
    ELSE IF b = <<>> THEN FALSE
    ELSE IF Head(a) = Head(b) THEN TextLeq(Tail(a), Tail(b))
    ELSE CharRank(Head(a)) < CharRank(Head(b))

\* the relative path a written row stands for
RowPath(r) ==
    IF r["File path"] = <<".">> THEN r["file name"]
    ELSE r["File path"] \o <<"/">> \o r["file name"]

EntryPath(e) == IF e.dir = <<>> THEN e.name ELSE PathStr(e.dir) \o <<"/">> \o e.name

\* a file whose extension, compared case-insensitively, is .yml or .yaml
IsRuleFile(e) ==
    ~e.isdir /\ (EndsWith(Lower(e.name), DOT_YML) \/ EndsWith(Lower(e.name), DOT_YAML))

\* the tactic tokens in the tactics cells of the techniques a row lists
BackfillTactics(row) ==
    LET techs == TokenSet(row["techniques_id"].v)
    IN UNION { TokenSet(techniques_df.rows[j]["tactics"]) :
                 j \in { j \in DOMAIN techniques_df.rows :
                           Lower(techniques_df.rows[j]["ID"]) \in techs } }

(***************************************************************************)
(* C1: a row whose tactics_id is empty after direct tag matching and whose *)
(* techniques_id is not ends, after the backfill, with tactics_id listing  *)
(* the canonical IDs, and tactics_name the canonical names, of the tactics *)
(* named in the tactics cells of its matched techniques' reference rows.   *)
(***************************************************************************)
C1_BackfillSetsTacticIds ==
    \A i \in DOMAIN data_rows :
        LET row == data_rows[i]
        IN (/\ ~Outcome(i).raised
            /\ row["tags"].v # <<>>
            /\ match_tags(row["tags"].v, tactics_lookup, hash_seed)[1] = <<>>
            /\ row["techniques_id"].v # <<>>)
           => /\ ValueSet(row["tactics_id"].v)
                   = { tactics_df.rows[k]["ID"] : k \in
                         { k \in DOMAIN tactics_df.rows :
                             Key(tactics_df.rows[k]["name"]) \in BackfillTactics(row) } }
              /\ ValueSet(row["tactics_name"].v)
                   = Canonical(tactics_df, "name", BackfillTactics(row))

(***************************************************************************)
(* C2: whenever processing a rule file raises an error, the error count    *)
(* grows by exactly one and exactly one row is appended for the file, with *)
(* the four path columns set from its path and every other column empty.   *)
(***************************************************************************)
C2_ErrorRowsBlank ==
    [][error_files' # error_files =>
          /\ error_files' = error_files + 1
          /\ Len(data_rows') = Len(data_rows) + 1
          /\ LET row == data_rows'[Len(data_rows')]
                 f == yaml_files[Len(data_rows')]
             IN /\ \A c \in PathColumns : row[c] = NewRow(f)[c]
                /\ \A c \in Columns \ PathColumns : row[c] = EMPTY]_vars

(***************************************************************************)
(* C3: after a run that does not abort, the rows written are one for each  *)
(* file under the root whose extension is .yml or .yaml in any letter      *)
(* case, none for any other entry, and processed_files + error_files is    *)
(* that same number.                                                       *)
(***************************************************************************)
C3_OneRowPerRuleFile ==
    pc = "done" =>
        /\ \A e \in tree :
             Cardinality({i \in DOMAIN output.rows : RowPath(output.rows[i]) = EntryPath(e)})
               = IF IsRuleFile(e) THEN 1 ELSE 0
        /\ Len(output.rows) = Cardinality({e \in tree : IsRuleFile(e)})
        /\ processed_files + error_files = Cardinality({e \in tree : IsRuleFile(e)})

(***************************************************************************)
(* C4: every value of every row of data_rows is a string, never null.      *)
(***************************************************************************)
C4_AllValuesStrings ==
    \A i \in DOMAIN data_rows : \A c \in Columns : data_rows[i][c].t = "str"

\* a reference file is missing or lacks a required column
DefectiveReferences ==
    \/ ~tactics_file.exists
    \/ ~techniques_file.exists
    \/ ~({"ID", "name"} \subseteq tactics_file.cols)
    \/ ~({"ID", "name", "tactics"} \subseteq techniques_file.cols)

(***************************************************************************)
(* C5: when a reference file is missing or lacks a required column (ID and *)
(* name; tactics too for the techniques file), no rule file is processed,  *)
(* nothing is counted as a per-file error and no output file is written.   *)
(***************************************************************************)
C5_ReferenceDefectsAbort ==
    DefectiveReferences =>
        /\ data_rows = <<>>
        /\ processed_files = 0 /\ error_files = 0
        /\ ~output.written

(***************************************************************************)
(* C8: the rows are written in sorted order of relative path, whatever the *)
(* order in which the file system lists the files: any other listing of    *)
(* the same tree gives the same sequence of rows.                          *)
(***************************************************************************)
C8_RowsInPathOrder ==
    pc = "done" =>
        /\ \A i, j \in DOMAIN output.rows :
             i < j => TextLeq(RowPath(output.rows[i]), RowPath(output.rows[j]))
        /\ \A w \in Walks(tree) :
             LET other == RGlob(w, DOT_YML) \o RGlob(w, DOT_YAML)
             IN [i \in DOMAIN other |-> EntryPath(other[i])]
                  = [i \in DOMAIN output.rows |-> RowPath(output.rows[i])]

(***************************************************************************)
(* C9: for a document whose fields (or references) value is a sequence,    *)
(* whatever its elements, the fields (references) column holds format_tags *)
(* of that sequence and no error is raised.                                *)
(***************************************************************************)
C9_ListColumnsAsFormatTags ==
    \A i \in DOMAIN data_rows :
        LET f == yaml_files[i]
        IN IsMapping(f) =>
             /\ Get(ContentOf(f), S_fields).t = "list" =>
                  data_rows[i]["fields"] = Str(format_tags(Get(ContentOf(f), S_fields)))
             /\ Get(ContentOf(f), S_references).t = "list" =>
                  data_rows[i]["references"] = Str(format_tags(Get(ContentOf(f), S_references)))

(***************************************************************************)
(* C10: every tactic name that direct tag matching puts in tactics_name is *)
(* still in tactics_name after the backfill.                               *)
(***************************************************************************)
C10_DirectNamesKept ==
    \A i \in DOMAIN data_rows :
        LET row == data_rows[i]
        IN (~Outcome(i).raised /\ row["tags"].v # <<>>) =>
             ValueSet(match_tags(row["tags"].v, tactics_lookup, hash_seed)[2])
               \subseteq ValueSet(row["tactics_name"].v)

(***************************************************************************)
(* C6: match_tags returns as IDs exactly the stored ID of each table entry *)
(* whose trimmed, lowercased ID is one of the tags' trimmed, lowercased,   *)
(* non-empty tokens, and as names exactly the stored names matched the     *)
(* same way; each value once however often its token is repeated, and of   *)
(* two rows with the same key the later row's value.                       *)
(***************************************************************************)
C6_MatchReturnsCanonical ==
    call_pc = "return" =>
        /\ ListsExactly(call_ret[1],
                        Canonical(call_args.df, "ID", TokenSet(call_args.tags)))
        /\ ListsExactly(call_ret[2],
                        Canonical(call_args.df, "name", TokenSet(call_args.tags)))

\* a repeated token matched two rows of one key that store different IDs
C6_Witness ==
    /\ call_pc = "return"
    /\ call_ret[1] # <<>>
    /\ Len(SelectSeq(Split(call_args.tags, ","), LAMBDA t : Strip(t) # <<>>))
         > Cardinality(TokenSet(call_args.tags))
    /\ \E i, j \in DOMAIN call_args.df.rows :
         /\ i < j
         /\ Key(call_args.df.rows[i]["ID"]) = Key(call_args.df.rows[j]["ID"])
         /\ call_args.df.rows[i]["ID"] # call_args.df.rows[j]["ID"]
         /\ Key(call_args.df.rows[i]["ID"]) \in TokenSet(call_args.tags)
         /\ call_ret[1] = call_args.df.rows[j]["ID"]

(***************************************************************************)
(* C7: applying the backfill to its own result changes nothing, and a row  *)
(* whose tactics_id is non-empty or whose techniques_id is empty comes     *)
(* back with every column unchanged.                                       *)
(***************************************************************************)
C7_BackfillIdempotent ==
    call_pc = "return" =>
        /\ call_ret.twice = call_ret.once
        /\ (call_args.row["tactics_id"].v # <<>> \/ call_args.row["techniques_id"].v = <<>>)
             => call_ret.once = [raised |-> FALSE, row |-> call_args.row]

\* the first pass rewrote the row and left tactics_id empty, so the second
\* pass ran the derivation again
C7_Witness ==
    /\ call_pc = "return"
    /\ ~call_ret.once.raised
    /\ call_ret.once.row # call_args.row
    /\ call_ret.once.row["tactics_id"].v = <<>>
    /\ call_ret.once.row["tactics_name"].v # <<>>

\* the guard held back a row that the derivation would have changed
C7_GuardWitness ==
    /\ call_pc = "return"
    /\ call_args.row["tactics_id"].v # <<>>
    /\ call_args.row["techniques_id"].v # <<>>
    /\ call_ret.once.row = call_args.row

====
